---- MODULE Spec2Model ----
(***************************************************************************)
(* A model of the blog generator library (src/src/lib.rs): the safety      *)
(* types (types/html_safe.rs, types/tag.rs), the failure aggregation       *)
(* (error.rs), the image optimizer (image.rs), the metadata extractor and  *)
(* markdown renderer (parser.rs) and the page templates (renderer.rs), and  *)
(* of the build that main.rs runs.                                         *)
(*                                                                         *)
(* Strings are sequences of characters; a character is a one-character     *)
(* string, except EAcute, which stands for one two-byte UTF-8 character.   *)
(***************************************************************************)
EXTENDS Naturals, Integers, Sequences, FiniteSets, TLC

VARIABLES
    \* safety types: the input string and the results of escape / Tag::new
    raw, escaped, tagResult,
    \* BuildResult: its two fields and what finalize returned
    successes, failures, outcome,
    \* the record_success / record_failure calls made so far (history)
    calls,
    \* extract_metadata: the markdown (its lines), the fallback title and the
    \* PostMetadata returned
    markdown, fallback_title, metadata,
    \* image optimizer: the clock, the files under the content directory, the
    \* files under <public>/images, and config.max_image_width
    now, srcFiles, destFiles, max_width,
    \* the optimize_image results of the current and of the previous build,
    \* and whether a source file was edited during each (history)
    cur, prev, editedCur, editedPrev,
    \* what render_markdown has made of each post in the current build: the
    \* figures pushed and what it returned
    rendered,
    \* renderer: the user-supplied strings of one post and one image, and the
    \* HTML produced from them, as the sequence of interpolated pieces
    userInput, html,
    \* main: the content directory, the public directory, the position of
    \* main, and its locals
    content_dir, public_dir, pc, parsed_results, valid_posts_data, all_tags,
    errors, merged, build_results, build_errors, posts, tag_todo, exit,
    \* render_markdown: the events of the parser, the number of events handled,
    \* the locals of the loop and the events pushed
    parser_events, handled, in_image, image_url, image_alt, events,
    \* parse_dimensions_or_image: its arguments and the attributes returned
    image_title, img_size, dim_attrs,
    \* concurrent optimize_image calls on one source: the source file, the
    \* file at the destination path, config.max_image_width, and for each
    \* task its position, the outcome of its cache check, the number of chunks
    \* it has written and what it returned
    src_file, dest_file, width_limit, task_pc, task_saw, task_offset, task_result

typeVars == <<raw, escaped, tagResult>>
buildVars == <<successes, failures, outcome, calls>>
parseVars == <<markdown, fallback_title, metadata>>
imageVars ==
    <<now, srcFiles, destFiles, max_width, cur, prev, editedCur, editedPrev, rendered>>
renderVars == <<userInput, html>>
mainVars ==
    <<content_dir, public_dir, pc, parsed_results, valid_posts_data, all_tags,
      errors, merged, build_results, build_errors, posts, tag_todo, exit>>
eventVars == <<parser_events, handled, in_image, image_url, image_alt, events>>
dimVars == <<image_title, img_size, dim_attrs>>
raceVars ==
    <<src_file, dest_file, width_limit, task_pc, task_saw, task_offset, task_result>>
vars ==
    <<raw, escaped, tagResult, successes, failures, outcome, calls,
      markdown, fallback_title, metadata,
      now, srcFiles, destFiles, max_width, cur, prev, editedCur, editedPrev, rendered,
      userInput, html,
      content_dir, public_dir, pc, parsed_results, valid_posts_data, all_tags,
      errors, merged, build_results, build_errors, posts, tag_todo, exit,
      parser_events, handled, in_image, image_url, image_alt, events,
      image_title, img_size, dim_attrs,
      src_file, dest_file, width_limit, task_pc, task_saw, task_offset, task_result>>

----------------------------------------------------------------------------
(* Bounds *)

\* longest input string enumerated character by character
MaxLen == 3
\* most record_success calls on one BuildResult
MaxSuccesses == 2
\* most record_failure calls on one BuildResult
MaxFailures == 3
\* longest text after a line's prefix in a markdown input
MaxBody == 2
\* most lines of a markdown input
MaxLines == 2
\* latest time the clock reaches
MaxTime == 2
\* longest user-supplied string given to the templates
MaxUserLen == 1
\* most markdown files in the content directory
MaxFiles == 3
\* most events the markdown parser gives for one document
MaxEvents == 5
\* longest image title
MaxTitleLen == 3
\* render tasks that call optimize_image on one source at the same time
MaxTasks == 2
\* chunks of an encoded file, written one at a time; the first is the header
MaxChunks == 2

----------------------------------------------------------------------------
(* Characters and strings *)

\* one non-ASCII character (U+00E9), two bytes in UTF-8
EAcute == "U+00E9"

Alphabet == {"&", "<", ">", "\"", "'", "/", ";", " ", "a", EAcute}

\* char::len_utf8
Utf8Len(ch) == IF ch = EAcute THEN 2 ELSE 1

\* str::len: the length in bytes
RECURSIVE ByteLen(_)
ByteLen(s) == IF s = <<>> THEN 0 ELSE Utf8Len(Head(s)) + ByteLen(Tail(s))

\* str::chars().count()
CharCount(s) == Len(s)

\* char::is_whitespace
IsWhitespace(ch) == ch \in {" ", "\t"}

RECURSIVE TrimStart(_)
TrimStart(s) ==
    IF s = <<>> THEN s
    ELSE IF IsWhitespace(Head(s)) THEN TrimStart(Tail(s)) ELSE s

RECURSIVE TrimEnd(_)
TrimEnd(s) ==
    IF s = <<>> THEN s
    ELSE IF IsWhitespace(s[Len(s)]) THEN TrimEnd(SubSeq(s, 1, Len(s) - 1)) ELSE s

\* str::trim
Trim(s) == TrimEnd(TrimStart(s))

\* the least number of a non-empty set
Least(S) == CHOOSE m \in S : \A k \in S : m <= k

\* all strings over alphabet A of length at most n
StringsUpTo(A, n) == UNION {[1..k -> A] : k \in 0..n}

\* the character ch repeated n times
Repeat(ch, n) == [i \in 1..n |-> ch]

----------------------------------------------------------------------------
(* types/html_safe.rs *)

\* a slip: the apostrophe is passed through
EscapeCharNoApostrophe(ch) ==
    CASE ch = "&" -> <<"&", "a", "m", "p", ";">>
      [] ch = "<" -> <<"&", "l", "t", ";">>
      [] ch = ">" -> <<"&", "g", "t", ";">>
      [] ch = "\"" -> <<"&", "q", "u", "o", "t", ";">>
      [] OTHER -> <<ch>>

\* the match in HtmlSafe::escape
EscapeChar(ch) ==
    CASE ch = "&" -> <<"&", "a", "m", "p", ";">>
      [] ch = "<" -> <<"&", "l", "t", ";">>
      [] ch = ">" -> <<"&", "g", "t", ";">>
      [] ch = "\"" -> <<"&", "q", "u", "o", "t", ";">>
      [] ch = "'" -> <<"&", "#", "x", "2", "7", ";">>
      [] OTHER -> <<ch>>

RECURSIVE EscapeFrom(_, _)
EscapeFrom(s, acc) ==
    IF s = <<>> THEN acc ELSE EscapeFrom(Tail(s), acc \o EscapeChar(Head(s)))

\* HtmlSafe::escape: the inner string of the HtmlSafe it returns
escape(s) == EscapeFrom(s, <<>>)

----------------------------------------------------------------------------
(* types/tag.rs *)

MAX_LENGTH == 50

FORBIDDEN_CHARS == {"<", ">", "&", "\"", "'", "/"}

ReasonEmpty == "tag is empty"
ReasonTooLong == "tag exceeds 50 characters"
ReasonForbidden == "tag contains HTML special characters"

TagOk(s) == [state |-> "Ok", tag |-> s, reason |-> ""]
TagErr(r) == [state |-> "Err", tag |-> <<>>, reason |-> r]

HasForbidden(s) == \E i \in 1..Len(s) : s[i] \in FORBIDDEN_CHARS

\* a slip: the forbidden characters are checked before the length
Tag_new_chars_first(s) ==
    LET trimmed == Trim(s) IN
    IF trimmed = <<>> THEN TagErr(ReasonEmpty)
    ELSE IF HasForbidden(trimmed) THEN TagErr(ReasonForbidden)
    ELSE IF ByteLen(trimmed) > MAX_LENGTH THEN TagErr(ReasonTooLong)
    ELSE TagOk(trimmed)

\* Tag::new
Tag_new(s) ==
    LET trimmed == Trim(s) IN
    IF trimmed = <<>> THEN TagErr(ReasonEmpty)
    ELSE IF ByteLen(trimmed) > MAX_LENGTH THEN TagErr(ReasonTooLong)
    ELSE IF HasForbidden(trimmed) THEN TagErr(ReasonForbidden)
    ELSE TagOk(trimmed)

----------------------------------------------------------------------------
(* The safety types applied to bounded inputs *)

\* lengths of padding that put a string just below, at and above MAX_LENGTH,
\* in characters and in bytes
PadCounts ==
    {0, MAX_LENGTH \div 2, MAX_LENGTH \div 2 + 1,
     MAX_LENGTH - 1, MAX_LENGTH, MAX_LENGTH + 1}

Blanks == {<<>>, <<" ">>}

\* short strings with optional surrounding blanks and a long run of one character
PaddedInputs ==
    {w1 \o c \o Repeat(p, n) \o w2 :
        w1 \in Blanks, w2 \in Blanks, c \in StringsUpTo(Alphabet, 1),
        p \in {"a", EAcute}, n \in PadCounts}

TypeInputs == StringsUpTo(Alphabet, MaxLen) \cup PaddedInputs

NotEscaped == [done |-> FALSE, s |-> <<>>]
NoTagResult == [state |-> "none", tag |-> <<>>, reason |-> ""]

TypesIdle == raw = <<>> /\ escaped = NotEscaped /\ tagResult = NoTagResult

TypesInit ==
    /\ raw \in TypeInputs
    /\ escaped = NotEscaped
    /\ tagResult = NoTagResult

\* EscapeHtml::escape_html on the input
escape_html ==
    /\ ~escaped.done
    /\ escaped' = [done |-> TRUE, s |-> escape(raw)]
    /\ UNCHANGED <<raw, tagResult>>

\* a call of Tag::new on the input
TagNewCall ==
    /\ tagResult.state = "none"
    /\ tagResult' = Tag_new(raw)
    /\ UNCHANGED <<raw, escaped>>

----------------------------------------------------------------------------
(* Properties of the safety types *)

HtmlSpecials == {"&", "<", ">", "\"", "'"}

Entities ==
    {<<"&", "a", "m", "p", ";">>, <<"&", "l", "t", ";">>, <<"&", "g", "t", ";">>,
     <<"&", "q", "u", "o", "t", ";">>, <<"&", "#", "x", "2", "7", ";">>}

\* the string e occurs in s at index i
OccursAt(s, i, e) ==
    i + Len(e) - 1 <= Len(s) /\ SubSeq(s, i, i + Len(e) - 1) = e

Chars(s) == {s[i] : i \in 1..Len(s)}

\* C1: escape(s) holds none of < > " ', every & in it starts one of the five
\* entities, and escape is the identity on strings without & < > " '.
C1_EscapeSafe ==
    escaped.done =>
        /\ Chars(escaped.s) \cap {"<", ">", "\"", "'"} = {}
        /\ \A i \in 1..Len(escaped.s) :
               escaped.s[i] = "&" => \E e \in Entities : OccursAt(escaped.s, i, e)
        /\ Chars(raw) \cap HtmlSpecials = {} => escaped.s = raw

\* an input with an ampersand and an apostrophe has been escaped
C1_Witness ==
    escaped.done /\ {"&", "'"} \subseteq Chars(raw) /\ Len(escaped.s) > Len(raw)

\* C3: Tag::new is total; it returns Ok exactly when the trimmed input is
\* non-empty, has at most 50 characters and none of < > & " ' /; on Ok the tag
\* is the trimmed input; a trimmed input of more than 50 characters gets the
\* length failure.
C3_TagNewContract ==
    tagResult.state # "none" =>
        LET t == Trim(raw) IN
        /\ tagResult.state \in {"Ok", "Err"}
        /\ tagResult.state = "Ok" <=>
               (t # <<>> /\ CharCount(t) <= 50 /\ Chars(t) \cap FORBIDDEN_CHARS = {})
        /\ tagResult.state = "Ok" => tagResult.tag = t
        /\ CharCount(t) > 50 =>
               tagResult.state = "Err" /\ tagResult.reason = ReasonTooLong

----------------------------------------------------------------------------
(* error.rs *)

RecoverableKinds == {"ParseFailed", "InvalidTag", "ImageOptFailed"}

ErrorKinds ==
    RecoverableKinds \cup
    {"ContentNotReadable", "OutputNotWritable", "NoValidPosts", "Internal"}

\* the payloads (path, tag, message) that tell two errors of one kind apart
Payloads == {"p1", "p2"}

BuildErrors == [kind : ErrorKinds, payload : Payloads]

\* BuildError::is_recoverable
is_recoverable(e) == e.kind \in RecoverableKinds

\* Iterator::find(|e| !e.is_recoverable()) over the failures from index i
RECURSIVE FindNonRecoverable(_, _)
FindNonRecoverable(fs, i) ==
    IF i > Len(fs) THEN 0
    ELSE IF ~is_recoverable(fs[i]) THEN i
    ELSE FindNonRecoverable(fs, i + 1)

\* a slip: the scan keeps the last non-recoverable failure
RECURSIVE FindLastNonRecoverable(_, _)
FindLastNonRecoverable(fs, i) ==
    IF i > Len(fs) THEN 0
    ELSE LET later == FindLastNonRecoverable(fs, i + 1) IN
         IF later # 0 THEN later
         ELSE IF ~is_recoverable(fs[i]) THEN i ELSE 0

NoSummary == [posts_built |-> 0, posts_skipped |-> 0, warnings |-> <<>>]
NoError == [kind |-> "none", payload |-> "none"]

Ok(summary) == [state |-> "Ok", summary |-> summary, error |-> NoError]
Err(e) == [state |-> "Err", summary |-> NoSummary, error |-> e]
NotFinalized == [state |-> "none", summary |-> NoSummary, error |-> NoError]

\* the path finalize puts in NoValidPosts
NoValidPostsError == [kind |-> "NoValidPosts", payload |-> "content"]

\* a slip: the last non-recoverable failure is returned
FinalizeResultLast(n, fs) ==
    LET i == FindLastNonRecoverable(fs, 1) IN
    IF i # 0 THEN Err(fs[i])
    ELSE IF n = 0 /\ fs # <<>> THEN Err(NoValidPostsError)
    ELSE Ok([posts_built |-> n, posts_skipped |-> Len(fs), warnings |-> fs])

\* a slip: an empty build is reported as NoValidPosts
FinalizeResultStrict(n, fs) ==
    LET i == FindNonRecoverable(fs, 1) IN
    IF i # 0 THEN Err(fs[i])
    ELSE IF n = 0 THEN Err(NoValidPostsError)
    ELSE Ok([posts_built |-> n, posts_skipped |-> Len(fs), warnings |-> fs])

\* BuildResult::finalize on successes = n, failures = fs
FinalizeResult(n, fs) ==
    LET i == FindNonRecoverable(fs, 1) IN
    IF i # 0 THEN Err(fs[i])
    ELSE IF n = 0 /\ fs # <<>> THEN Err(NoValidPostsError)
    ELSE Ok([posts_built |-> n, posts_skipped |-> Len(fs), warnings |-> fs])

NoCalls == [success |-> 0, failure |-> <<>>]

BuildIdle ==
    successes = 0 /\ failures = <<>> /\ outcome = NotFinalized /\ calls = NoCalls

\* BuildResult::new
BuildResult_new ==
    successes = 0 /\ failures = <<>> /\ outcome = NotFinalized /\ calls = NoCalls

\* BuildResult::record_success
record_success ==
    /\ outcome.state = "none"
    /\ successes < MaxSuccesses
    /\ successes' = successes + 1
    /\ calls' = [calls EXCEPT !.success = @ + 1]
    /\ UNCHANGED <<failures, outcome>>

\* BuildResult::record_failure
record_failure ==
    /\ outcome.state = "none"
    /\ Len(failures) < MaxFailures
    /\ \E e \in BuildErrors :
        /\ failures' = Append(failures, e)
        /\ calls' = [calls EXCEPT !.failure = Append(@, e)]
    /\ UNCHANGED <<successes, outcome>>

\* BuildResult::finalize, which consumes the BuildResult
finalize ==
    /\ outcome.state = "none"
    /\ outcome' = FinalizeResult(successes, failures)
    /\ UNCHANGED <<successes, failures, calls>>

----------------------------------------------------------------------------
(* Properties of BuildResult::finalize *)

NonRecoverableAt(fs) ==
    {i \in 1..Len(fs) :
        fs[i].kind \notin {"ParseFailed", "InvalidTag", "ImageOptFailed"}}

\* C5: with a non-recoverable failure among the recorded ones, finalize
\* returns Err with the first non-recoverable failure in recording order,
\* whatever the number of successes.
C5_FirstNonRecoverable ==
    (outcome.state # "none" /\ NonRecoverableAt(calls.failure) # {}) =>
        /\ outcome.state = "Err"
        /\ outcome.error = calls.failure[Least(NonRecoverableAt(calls.failure))]

\* finalize ran after a success, a recoverable failure and two different
\* non-recoverable failures
C5_Witness ==
    /\ outcome.state = "Err"
    /\ calls.success > 0
    /\ Len(calls.failure) = 3
    /\ NonRecoverableAt(calls.failure) = {2, 3}
    /\ calls.failure[2] # calls.failure[3]

----------------------------------------------------------------------------
(* parser.rs: extract_metadata *)

\* str::starts_with
StartsWith(s, p) == Len(s) >= Len(p) /\ SubSeq(s, 1, Len(p)) = p

\* str::trim_start_matches: the prefix p is removed as often as it occurs
RECURSIVE TrimStartMatches(_, _)
TrimStartMatches(s, p) ==
    IF StartsWith(s, p) THEN TrimStartMatches(SubSeq(s, Len(p) + 1, Len(s)), p)
    ELSE s

\* str::split(sep) from a segment begun as seg: the segments in order, an
\* empty string giving one empty segment
RECURSIVE SplitFrom(_, _, _)
SplitFrom(s, sep, seg) ==
    IF s = <<>> THEN <<seg>>
    ELSE IF Head(s) = sep THEN <<seg>> \o SplitFrom(Tail(s), sep, <<>>)
    ELSE SplitFrom(Tail(s), sep, Append(seg, Head(s)))

Split(s, sep) == SplitFrom(s, sep, <<>>)

TitleMarker == <<"#", " ">>
TagsMarker == <<"T", "a", "g", "s", ":">>

\* Iterator::find over the lines from index i: the index of the first line
\* that is a title line (0 when there is none)
RECURSIVE FindTitleLine(_, _)
FindTitleLine(lines, i) ==
    IF i > Len(lines) THEN 0
    ELSE IF StartsWith(lines[i], TitleMarker) THEN i
    ELSE FindTitleLine(lines, i + 1)

\* the index of the first line whose trimmed form starts with Tags:
RECURSIVE FindTagsLine(_, _)
FindTagsLine(lines, i) ==
    IF i > Len(lines) THEN 0
    ELSE IF StartsWith(Trim(lines[i]), TagsMarker) THEN i
    ELSE FindTagsLine(lines, i + 1)

\* the loop over tag_str.split(','): the tags Tag::new accepts, in order
RECURSIVE CollectTags(_)
CollectTags(segs) ==
    IF segs = <<>> THEN <<>>
    ELSE LET r == Tag_new(Head(segs)) IN
         (IF r.state = "Ok" THEN <<r.tag>> ELSE <<>>) \o CollectTags(Tail(segs))

\* extract_metadata
extract_metadata(lines, fallback) ==
    LET t == FindTitleLine(lines, 1)
        raw_title ==
            IF t # 0 THEN Trim(TrimStartMatches(lines[t], TitleMarker))
            ELSE fallback
        g == FindTagsLine(lines, 1)
        tags ==
            IF g # 0
            THEN CollectTags(Split(Trim(TrimStartMatches(lines[g], TagsMarker)), ","))
            ELSE <<>>
    IN [done |-> TRUE, title |-> escape(raw_title), tags |-> tags,
        raw_title |-> raw_title]

NoMetadata == [done |-> FALSE, title |-> <<>>, tags |-> <<>>, raw_title |-> <<>>]

LinePrefixes ==
    {<<>>, <<" ">>, TitleMarker, TitleMarker \o TitleMarker, TagsMarker,
     <<" ">> \o TagsMarker, TagsMarker \o TagsMarker}

LineBodies == StringsUpTo({"a", ",", " ", "<"}, MaxBody)

MarkdownLines == {p \o b : p \in LinePrefixes, b \in LineBodies}

FallbackTitles == {<<"f">>, <<"<", "f">>}

ParseIdle == markdown = <<>> /\ fallback_title = <<>> /\ metadata = NoMetadata

ParseInit ==
    /\ markdown \in UNION {[1..k -> MarkdownLines] : k \in 0..MaxLines}
    /\ fallback_title \in FallbackTitles
    /\ metadata = NoMetadata

\* a call of extract_metadata on the input
ExtractMetadataCall ==
    /\ ~metadata.done
    /\ metadata' = extract_metadata(markdown, fallback_title)
    /\ UNCHANGED <<markdown, fallback_title>>

----------------------------------------------------------------------------
(* Properties of extract_metadata *)

TagsLines == {i \in 1..Len(markdown) : StartsWith(Trim(markdown[i]), TagsMarker)}

\* the text after Tags: in a line whose trimmed form begins with it
AfterTags(line) == SubSeq(Trim(line), Len(TagsMarker) + 1, Len(Trim(line)))

RECURSIVE ValidSegments(_)
ValidSegments(segs) ==
    IF segs = <<>> THEN <<>>
    ELSE (IF Tag_new(Head(segs)).state = "Ok" THEN <<Trim(Head(segs))>> ELSE <<>>)
         \o ValidSegments(Tail(segs))

\* C9: the tags come from the first line whose trimmed form begins with Tags:
\* (leading whitespace allowed); the text after Tags: is split on commas, and
\* the tags are the trimmed valid segments in order, duplicates kept and
\* invalid segments dropped.
C9_TagsFromTagsLine ==
    (metadata.done /\ TagsLines # {}) =>
        metadata.tags = ValidSegments(Split(AfterTags(markdown[Least(TagsLines)]), ","))

TitleLines == {i \in 1..Len(markdown) : StartsWith(markdown[i], TitleMarker)}

\* C10: raw_title is the first line beginning with "# " with that marker
\* removed and the rest trimmed but otherwise kept as written, or
\* fallback_title when no line begins with "# "; title = escape(raw_title).
C10_TitleFromFirstHeading ==
    metadata.done =>
        /\ metadata.raw_title =
               IF TitleLines = {} THEN fallback_title
               ELSE LET line == markdown[Least(TitleLines)] IN
                    Trim(SubSeq(line, Len(TitleMarker) + 1, Len(line)))
        /\ metadata.title = escape(metadata.raw_title)

----------------------------------------------------------------------------
(* parser.rs: parse_dimensions_or_image *)

Digits == {"0", "8"}

\* str::parse::<u32>().is_ok(): decimal digits after an optional +
ParsesAsU32(str) ==
    LET body == IF str # <<>> /\ Head(str) = "+" THEN Tail(str) ELSE str IN
    body # <<>> /\ \A i \in 1..Len(body) : body[i] \in Digits

\* str::find('x'): the index of the first x, 0 when there is none
FindX(str) ==
    LET at == {i \in 1..Len(str) : str[i] = "x"} IN
    IF at = {} THEN 0 ELSE Least(at)

DigitValue(ch) == IF ch = "8" THEN 8 ELSE 0

\* the number a string of digits denotes
RECURSIVE DigitsValue(_)
DigitsValue(str) ==
    IF str = <<>> THEN 0
    ELSE 10 * DigitsValue(SubSeq(str, 1, Len(str) - 1)) + DigitValue(str[Len(str)])

\* str::parse::<u32>(): Ok(value) or Err
parse_u32(str) ==
    IF ParsesAsU32(str)
    THEN [ok |-> TRUE,
          value |-> DigitsValue(IF Head(str) = "+" THEN Tail(str) ELSE str)]
    ELSE [ok |-> FALSE, value |-> 0]

\* a width or height attribute: String::new() or width="n" / height="n"
NoAttr == [some |-> FALSE, value |-> 0]
Attr(n) == [some |-> TRUE, value |-> n]

\* a slip: a title WxH whose height does not parse still sets the width
parse_dimensions_partial(title, img_w, img_h) ==
    LET clean == Trim(title)
        x == FindX(clean)
        w == parse_u32(IF x # 0 THEN SubSeq(clean, 1, x - 1) ELSE clean)
        h == parse_u32(IF x # 0 THEN SubSeq(clean, x + 1, Len(clean)) ELSE <<>>)
    IN IF x # 0 /\ w.ok /\ h.ok THEN <<Attr(w.value), Attr(h.value)>>
       ELSE IF w.ok THEN <<Attr(w.value), NoAttr>>
       ELSE IF img_w > 0 /\ img_h > 0 THEN <<Attr(img_w), Attr(img_h)>>
       ELSE <<NoAttr, NoAttr>>

\* parse_dimensions_or_image: <<width_attr, height_attr>>
parse_dimensions_or_image(title, img_w, img_h) ==
    LET clean == Trim(title)
        x == FindX(clean)
        w == parse_u32(SubSeq(clean, 1, x - 1))
        h == parse_u32(SubSeq(clean, x + 1, Len(clean)))
        single == parse_u32(clean)
    IN IF x # 0 /\ w.ok /\ h.ok THEN <<Attr(w.value), Attr(h.value)>>
       ELSE IF single.ok THEN <<Attr(single.value), NoAttr>>
       ELSE IF img_w > 0 /\ img_h > 0 THEN <<Attr(img_w), Attr(img_h)>>
       ELSE <<NoAttr, NoAttr>>

----------------------------------------------------------------------------
(* image.rs *)

\* original_src: an optional URL scheme, then directory, file stem, extension
Src(scheme, dir, stem, ext) ==
    [scheme |-> scheme, dir |-> dir, stem |-> stem, ext |-> ext]

PicA == Src("", "a", "pic", "png")
PicB == Src("", "b", "pic", "jpg")
Bad == Src("", "a", "bad", "png")
Gone == Src("", "a", "gone", "png")
HttpPic == Src("http://", "h", "pic", "png")
HttpsPic == Src("https://", "h", "pic", "png")

\* the local paths with a file, and the one among them that is no image
LocalFiles == {PicA, PicB, Bad}
CorruptFiles == {Bad}
Sources == LocalFiles \cup {Gone, HttpPic, HttpsPic}

\* the images of each post in document order: render_markdown handles them
\* in this order, and the posts are rendered in parallel
PostImages == <<  <<PicA, Gone, HttpPic>>, <<PicB, Bad, HttpsPic>>  >>

\* pixel sizes <<width, height>> of the source images
ImageDims == {<<2, 2>>, <<4, 7>>}

\* the first picture stored under a local path
FirstDims(s) == IF s = PicA THEN <<4, 7>> ELSE <<2, 2>>

\* values of config.max_image_width
MaxWidths == {3}

\* original_src.starts_with("http://") || original_src.starts_with("https://")
IsExternalSrc(s) == s.scheme \in {"http://", "https://"}

\* a path returned as rel_path: the input string, or images/<stem>.webp
InputPath(s) == [root |-> "input", name |-> s]
ImagesPath(stem) == [root |-> "images", name |-> Src("", "images", stem, "webp")]

\* OptimizedImage::is_external
is_external(img) == img.rel_path.root = "input" /\ IsExternalSrc(img.rel_path.name)

NoPath == [root |-> "none", name |-> Src("", "", "", "")]
NoResult ==
    [state |-> "none", rel_path |-> NoPath, width |-> 0, height |-> 0,
     error |-> "none", wrote |-> FALSE]

OkImage(p, w, h, wrote) ==
    [state |-> "Ok", rel_path |-> p, width |-> w, height |-> h,
     error |-> "none", wrote |-> wrote]
ErrImage(e, wrote) ==
    [state |-> "Err", rel_path |-> NoPath, width |-> 0, height |-> 0,
     error |-> e, wrote |-> wrote]

\* OptimizedImage::external
external(s) == OkImage(InputPath(s), 0, 0, FALSE)

\* a slip: a missing source reported under its destination path
missing_as_dest(s) == OkImage(ImagesPath(s.stem), 0, 0, FALSE)

\* OptimizedImage::missing
missing(s) == OkImage(InputPath(s), 0, 0, FALSE)

NoFile == [exists |-> FALSE, mtime |-> 0, w |-> 0, h |-> 0]
File(t, w, h) == [exists |-> TRUE, mtime |-> t, w |-> w, h |-> h]

Stems == {s.stem : s \in Sources}

\* a slip: the height too is limited to max_width (resize(max_width, max_width, _))
ResizedBoxed(w, h, mw) ==
    LET nh == (2 * h * mw + w) \div (2 * w)
        nw == (2 * w * mw + h) \div (2 * h)
    IN IF nh <= mw THEN <<mw, IF nh < 1 THEN 1 ELSE nh>>
       ELSE <<IF nw < 1 THEN 1 ELSE nw, mw>>

\* DynamicImage::resize(max_width, u32::MAX, _): the width becomes max_width,
\* the height follows the aspect ratio, rounded, at least 1
Resized(w, h, mw) ==
    LET nh == (2 * h * mw + w) \div (2 * w) IN <<mw, IF nh < 1 THEN 1 ELSE nh>>

\* the dimensions of final_img
FinalDims(w, h, mw) == IF w > mw THEN Resized(w, h, mw) ELSE <<w, h>>

\* read_cached_dimensions: the header of the file at the destination
read_cached_dimensions(file, rel_path) == OkImage(rel_path, file.w, file.h, FALSE)

\* a slip: a destination as old as the source counts as stale
CacheHitStrict(src, dest) == dest.exists /\ dest.mtime > src.mtime

\* the cache check: destination exists and is at least as new as the source
CacheHit(src, dest) == dest.exists /\ dest.mtime >= src.mtime

\* optimize_image: what it returns
optimize_image_result(s, files, dests, mw, t) ==
    IF IsExternalSrc(s) THEN external(s)
    ELSE IF ~(s \in DOMAIN files /\ files[s].exists) THEN missing(s)
    ELSE IF CacheHit(files[s], dests[s.stem])
         THEN read_cached_dimensions(dests[s.stem], ImagesPath(s.stem))
    ELSE IF s \in CorruptFiles THEN ErrImage("ImageOptFailed", FALSE)
    ELSE LET d == FinalDims(files[s].w, files[s].h, mw) IN
         OkImage(ImagesPath(s.stem), d[1], d[2], TRUE)

\* optimize_image: the files under <public>/images after it
optimize_image_dests(s, files, dests, mw, t) ==
    LET r == optimize_image_result(s, files, dests, mw, t) IN
    IF r.wrote THEN [dests EXCEPT ![s.stem] = File(t, r.width, r.height)]
    ELSE dests

\* a post that render_markdown has not begun
NotRendered == [figures |-> <<>>, result |-> "running"]

\* a slip: a failed image falls back to its destination path
image_or_dest(s, result) ==
    IF result.state = "Err" THEN OkImage(ImagesPath(s.stem), 0, 0, FALSE) ELSE result

\* optimize_image(..).unwrap_or_else(|_| OptimizedImage::missing(&image_url))
image_or_missing(s, result) ==
    IF result.state = "Err" THEN missing(s) ELSE result

ImageIdle ==
    /\ now = 0 /\ srcFiles = <<>> /\ destFiles = <<>> /\ max_width = 0
    /\ cur = <<>> /\ prev = <<>> /\ editedCur = FALSE /\ editedPrev = FALSE
    /\ rendered = <<>>

\* a content directory written at time 0 and an empty images directory
ImageInit ==
    /\ now = 0
    /\ srcFiles = [s \in LocalFiles |-> File(0, FirstDims(s)[1], FirstDims(s)[2])]
    /\ destFiles = [st \in Stems |-> NoFile]
    /\ max_width \in MaxWidths
    /\ cur = [s \in Sources |-> NoResult]
    /\ prev = [s \in Sources |-> NoResult]
    /\ editedCur = FALSE
    /\ editedPrev = TRUE
    /\ rendered = [p \in 1..Len(PostImages) |-> NotRendered]

\* the clock advances
Tick ==
    /\ now < MaxTime
    /\ now' = now + 1
    /\ UNCHANGED <<srcFiles, destFiles, max_width, cur, prev, editedCur, editedPrev,
                   rendered>>

\* the author overwrites a source image with another picture
EditSource ==
    /\ \E s \in LocalFiles \ CorruptFiles : \E d \in ImageDims :
        /\ <<srcFiles[s].w, srcFiles[s].h>> # d
        /\ srcFiles' = [srcFiles EXCEPT ![s] = File(now, d[1], d[2])]
    /\ editedCur' = TRUE
    /\ UNCHANGED <<now, destFiles, max_width, cur, prev, editedPrev, rendered>>

\* the image a render task handles next: the first of the post's images
\* without a result in the current build
NextImage(p, results) ==
    LET todo == {i \in 1..Len(PostImages[p]) : results[PostImages[p][i]] = NoResult}
    IN IF todo = {} THEN {} ELSE {PostImages[p][Least(todo)]}

\* optimize_image called for the image s
optimize_image(s) ==
    /\ cur' = [cur EXCEPT ![s] =
                  optimize_image_result(s, srcFiles, destFiles, max_width, now)]
    /\ destFiles' = optimize_image_dests(s, srcFiles, destFiles, max_width, now)

\* the figure pushed for one image: its src, the width and height attributes
\* and the loading strategy
FigureOf(opt, image_title_, first_image, relative_root) ==
    LET attrs == parse_dimensions_or_image(image_title_, opt.width, opt.height) IN
    [src |-> [prefix |-> IF is_external(opt) THEN "" ELSE relative_root,
              path |-> opt.rel_path],
     width |-> attrs[1], height |-> attrs[2],
     loading |-> IF first_image THEN "eager" ELSE "lazy"]

\* Event::End(TagEnd::Image) in the render task of one post: the image is
\* optimized, its figure is pushed, and after the last image of the post
\* render_markdown returns Ok
ImageEnd ==
    \E p \in 1..Len(PostImages) : \E s \in NextImage(p, cur) :
        /\ optimize_image(s)
        /\ LET opt == image_or_missing(s, cur'[s])
               figs == Append(rendered[p].figures,
                              FigureOf(opt, <<>>, rendered[p].figures = <<>>, "../"))
           IN rendered' = [rendered EXCEPT ![p] =
                  [figures |-> figs,
                   result |-> IF Len(figs) = Len(PostImages[p]) THEN "Ok"
                              ELSE "running"]]
        /\ UNCHANGED <<now, srcFiles, max_width, prev, editedCur, editedPrev>>

\* the build has handled every image; the next build starts
NextBuild ==
    /\ \A s \in Sources : cur[s] # NoResult
    /\ prev' = cur
    /\ cur' = [s \in Sources |-> NoResult]
    /\ editedPrev' = editedCur
    /\ editedCur' = FALSE
    /\ rendered' = [p \in 1..Len(PostImages) |-> NotRendered]
    /\ UNCHANGED <<now, srcFiles, destFiles, max_width>>

\* values config.max_image_width is given over the life of an output directory
ConfigWidths == {2, 3}

\* between two builds the site is configured with another max_image_width
Reconfigure ==
    /\ \A s \in Sources : cur[s] = NoResult
    /\ \E mw \in ConfigWidths \ {max_width} : max_width' = mw
    /\ UNCHANGED <<now, srcFiles, destFiles, cur, prev, editedCur, editedPrev, rendered>>

----------------------------------------------------------------------------
(* Properties of optimize_image *)

\* no source file was edited since the previous build began
NoSourceChange == ~editedPrev /\ ~editedCur

\* C7: building twice in a row with no source changes: for every local image
\* optimized in the first build, the call of the second build writes nothing
\* and returns the same rel_path, width and height.
C7_SecondBuildReusesCache ==
    \A s \in Sources :
        (/\ NoSourceChange
         /\ prev[s].state = "Ok" /\ prev[s].rel_path.root = "images"
         /\ cur[s] # NoResult) =>
            /\ ~cur[s].wrote
            /\ cur[s].state = "Ok"
            /\ cur[s].rel_path = prev[s].rel_path
            /\ cur[s].width = prev[s].width
            /\ cur[s].height = prev[s].height

\* C8: for an http:// or https:// source, or a local source without a file,
\* optimize_image returns Ok with rel_path = the input and width = height = 0,
\* and changes no file under the images directory.
C8_ExternalOrMissingUntouched ==
    [][\A s \in Sources :
          (/\ cur[s] = NoResult /\ cur'[s] # NoResult
           /\ \/ s.scheme \in {"http://", "https://"}
              \/ ~(s \in DOMAIN srcFiles /\ srcFiles[s].exists)) =>
              /\ cur'[s].state = "Ok"
              /\ cur'[s].rel_path = [root |-> "input", name |-> s]
              /\ cur'[s].width = 0 /\ cur'[s].height = 0
              /\ destFiles' = destFiles]_vars

\* the external and the missing sources were handled while the images
\* directory already held an optimized file
C8_Witness ==
    /\ cur[Gone].state = "Ok" /\ cur[HttpPic].state = "Ok" /\ cur[HttpsPic].state = "Ok"
    /\ destFiles["pic"].exists

\* this step is a call of optimize_image on s
Called(s) == cur[s] = NoResult /\ cur'[s] # NoResult

\* the destination of s is missing or strictly older than s
Stale(s) ==
    \/ ~destFiles[s.stem].exists
    \/ destFiles[s.stem].mtime < srcFiles[s].mtime

\* what C15 says of a call on s
CacheContract(s) ==
    /\ cur'[s].wrote <=> Stale(s)
    /\ ~Stale(s) =>
        /\ destFiles' = destFiles
        /\ cur'[s].state = "Ok"
        /\ cur'[s].width = destFiles[s.stem].w
        /\ cur'[s].height = destFiles[s.stem].h
    /\ Stale(s) =>
        /\ destFiles'[s.stem].exists
        /\ destFiles'[s.stem].mtime >= srcFiles[s].mtime

KeepsAspect(w, h, mw, h2) ==
    \/ 2 * h2 * w - 2 * h * mw \in (0 - w)..w
    \/ h2 = 1 /\ 2 * h * mw < w

\* C16: a call that misses the cache on a decodable source of w x h pixels
\* writes a file of max_width x (h * max_width / w, rounded) when
\* w > max_width, whatever that height, and of w x h otherwise, and returns
\* the width and height of the file written.
C16_ResizeByWidthOnly ==
    [][\A s \in LocalFiles \ CorruptFiles : (Called(s) /\ Stale(s)) =>
          LET w == srcFiles[s].w
              h == srcFiles[s].h
              out == destFiles'[s.stem]
          IN /\ cur'[s].state = "Ok"
             /\ out.exists
             /\ IF w > max_width
                THEN out.w = max_width /\ KeepsAspect(w, h, max_width, out.h)
                ELSE out.w = w /\ out.h = h
             /\ cur'[s].width = out.w /\ cur'[s].height = out.h]_vars

\* a 4 x 7 source was written 3 pixels wide and taller than max_width, and a
\* 2 x 2 source at its own size
C16_Witness ==
    /\ max_width = 3
    /\ cur[PicA].wrote /\ cur[PicA].width = 3 /\ cur[PicA].height = 5
    /\ cur[PicB].state = "Ok" /\ cur[PicB].width = 2 /\ cur[PicB].height = 2
    /\ srcFiles[PicA].w = 4 /\ srcFiles[PicA].h = 7

\* what the claim expects of the figure of the k-th image of post p that
\* failed to optimize: the original URL under the relative root, no measured
\* dimensions, the loading strategy of its position
FallbackFigure(p, k) ==
    [src |-> [prefix |-> "../", path |-> [root |-> "input", name |-> PostImages[p][k]]],
     width |-> [some |-> FALSE, value |-> 0],
     height |-> [some |-> FALSE, value |-> 0],
     loading |-> IF k = 1 THEN "eager" ELSE "lazy"]

C23_DistinctDestinations ==
    \A s1, s2 \in LocalFiles :
        (/\ s1 # s2
         /\ cur[s1].state = "Ok" /\ cur[s1].rel_path.root = "images"
         /\ cur[s2].state = "Ok" /\ cur[s2].rel_path.root = "images") =>
            cur[s1].rel_path # cur[s2].rel_path

\* C24: in every build, every result for a local image that reports a
\* non-zero width reports a width no greater than the max_width of that
\* build, whatever max_width the earlier builds over the same output
\* directory had.
C24_WidthWithinMaxWidth ==
    \A s \in LocalFiles :
        (cur[s].state = "Ok" /\ cur[s].width > 0) => cur[s].width <= max_width

----------------------------------------------------------------------------
(* image.rs: concurrent calls of optimize_image on one source *)

Tasks == 1..MaxTasks

\* the encoding of an image of the dimensions d, as the chunks written to the
\* file: the first chunk is the header, which holds the dimensions
Encoded(d) ==
    [k \in 1..MaxChunks |->
        [kind |-> IF k = 1 THEN "header" ELSE "data", w |-> d[1], h |-> d[2], k |-> k]]

Unwritten == [kind |-> "none", w |-> 0, h |-> 0, k |-> 0]
AbsentFile ==
    [exists |-> FALSE, mtime |-> 0, chunks |-> [k \in 1..MaxChunks |-> Unwritten]]
\* File::create: the file exists, is empty and is as new as can be
CreatedFile(t) ==
    [exists |-> TRUE, mtime |-> t, chunks |-> [k \in 1..MaxChunks |-> Unwritten]]

\* ImageReader::open(path) and reader.into_dimensions(): the dimensions in the
\* header, when the header has been written
into_dimensions(file) ==
    IF file.exists /\ file.chunks[1].kind = "header"
    THEN [ok |-> TRUE, w |-> file.chunks[1].w, h |-> file.chunks[1].h]
    ELSE [ok |-> FALSE, w |-> 0, h |-> 0]

\* read_cached_dimensions of a file that may be partly written
read_cached(file, rel_path) ==
    LET d == into_dimensions(file) IN
    IF d.ok THEN OkImage(rel_path, d.w, d.h, FALSE) ELSE OkImage(rel_path, 0, 0, FALSE)

\* the source every task is given
RaceSource == PicA

\* what the decode and the resize of the source give
RaceDims == FinalDims(src_file.w, src_file.h, width_limit)

RaceIdle ==
    /\ src_file = NoFile /\ dest_file = NoFile /\ width_limit = 0
    /\ task_pc = <<>> /\ task_saw = <<>> /\ task_offset = <<>> /\ task_result = <<>>

\* an existing source, no file at the destination, and every task about to
\* make its cache check
RaceInit ==
    /\ src_file \in {File(0, d[1], d[2]) : d \in ImageDims}
    /\ dest_file = AbsentFile
    /\ width_limit \in MaxWidths
    /\ task_pc = [t \in Tasks |-> "check"]
    /\ task_saw = [t \in Tasks |-> "none"]
    /\ task_offset = [t \in Tasks |-> 0]
    /\ task_result = [t \in Tasks |-> NoResult]

\* the cache check: dest_path.exists() and the comparison of the two mtimes
CacheCheck ==
    \E t \in Tasks :
        /\ task_pc[t] = "check"
        /\ IF CacheHit(src_file, dest_file)
           THEN /\ task_saw' = [task_saw EXCEPT ![t] = "hit"]
                /\ task_pc' = [task_pc EXCEPT ![t] = "read"]
           ELSE /\ task_saw' = [task_saw EXCEPT ![t] = "miss"]
                /\ task_pc' = [task_pc EXCEPT ![t] = "decode"]
        /\ UNCHANGED <<src_file, dest_file, width_limit, task_offset, task_result>>

\* return read_cached_dimensions(&dest_path, rel_path)
ReadCached ==
    \E t \in Tasks :
        /\ task_pc[t] = "read"
        /\ task_result' =
               [task_result EXCEPT ![t] = read_cached(dest_file, ImagesPath(RaceSource.stem))]
        /\ task_pc' = [task_pc EXCEPT ![t] = "returned"]
        /\ UNCHANGED <<src_file, dest_file, width_limit, task_saw, task_offset>>

\* image::open, the resize and final_img.dimensions()
Decode ==
    \E t \in Tasks :
        /\ task_pc[t] = "decode"
        /\ task_pc' = [task_pc EXCEPT ![t] = "create"]
        /\ UNCHANGED <<src_file, dest_file, width_limit, task_saw, task_offset, task_result>>

\* save_with_format: the destination is created, or truncated when it exists
CreateFile ==
    \E t \in Tasks :
        /\ task_pc[t] = "create"
        /\ dest_file' = CreatedFile(src_file.mtime)
        /\ task_pc' = [task_pc EXCEPT ![t] = "write"]
        /\ UNCHANGED <<src_file, width_limit, task_saw, task_offset, task_result>>

\* save_with_format: the task writes its next chunk at its own offset; after
\* the last chunk optimize_image returns Ok
WriteChunk ==
    \E t \in Tasks :
        /\ task_pc[t] = "write"
        /\ LET k == task_offset[t] + 1 IN
            /\ dest_file' = [dest_file EXCEPT !.chunks[k] = Encoded(RaceDims)[k]]
            /\ task_offset' = [task_offset EXCEPT ![t] = k]
            /\ IF k = MaxChunks
               THEN /\ task_pc' = [task_pc EXCEPT ![t] = "returned"]
                    /\ task_result' =
                           [task_result EXCEPT ![t] =
                               OkImage(ImagesPath(RaceSource.stem),
                                       RaceDims[1], RaceDims[2], TRUE)]
               ELSE UNCHANGED <<task_pc, task_result>>
        /\ UNCHANGED <<src_file, width_limit, task_saw>>

\* every task has returned
AllReturned == \A t \in Tasks : task_pc[t] = "returned"

\* the task returned the destination path and the dimensions a single call
\* gives
ReturnsAsSingleCall(t) ==
    /\ task_result[t].state = "Ok"
    /\ task_result[t].rel_path = ImagesPath(RaceSource.stem)
    /\ task_result[t].width = RaceDims[1] /\ task_result[t].height = RaceDims[2]
    /\ task_result[t].width > 0 /\ task_result[t].height > 0

\* the tasks that saw a cache miss return what a single call returns, and
\* once every task has returned the destination is the complete encoding
MissesAreBenign ==
    /\ \A t \in Tasks :
        (task_pc[t] = "returned" /\ task_saw[t] = "miss") => ReturnsAsSingleCall(t)
    /\ AllReturned =>
        /\ dest_file.exists
        /\ dest_file.chunks = Encoded(RaceDims)

\* a task that found the destination present returns the same dimensions
HitsAreBenign ==
    \A t \in Tasks :
        (task_pc[t] = "returned" /\ task_saw[t] = "hit") => ReturnsAsSingleCall(t)

\* C22: concurrent calls of optimize_image for one source are benign: the
\* calls that saw a cache miss return the same rel_path and non-zero
\* dimensions, the file left after all have finished is the complete encoding
\* of a single call, and a call that found the destination while another task
\* was writing it returns those dimensions too.
C22_RaceIsBenign == MissesAreBenign /\ HitsAreBenign

----------------------------------------------------------------------------
(* renderer.rs and the figure markup of parser.rs: render_markdown *)

\* a fragment of the format string
Lit(name) == [field |-> "literal", via |-> "literal", raw |-> <<>>, text |-> <<name>>]

\* an HtmlSafe made by escape (escape_html) from the user string r
Safe(field, r) == [field |-> field, via |-> "HtmlSafe", raw |-> r, text |-> escape(r)]

\* a Tag written with Display
TagPiece(tag) == [field |-> "tag", via |-> "Tag", raw |-> tag, text |-> tag]

\* a String or &str interpolated as it is
RawPiece(field, str) == [field |-> field, via |-> "String", raw |-> str, text |-> str]

\* char::to_lowercase
LowerChar(ch) == IF ch = "A" THEN "a" ELSE ch

\* Tag::to_lowercase
to_lowercase(tag) == [i \in 1..Len(tag) |-> LowerChar(tag[i])]

\* is_dimension_spec
is_dimension_spec(title) ==
    LET clean == Trim(title)
        x == FindX(clean)
    IN IF clean = <<>> THEN FALSE
       ELSE IF x # 0
            THEN /\ ParsesAsU32(SubSeq(clean, 1, x - 1))
                 /\ ParsesAsU32(SubSeq(clean, x + 1, Len(clean)))
       ELSE ParsesAsU32(clean)

\* the tags_html of render_post_meta and render_post_list
RECURSIVE TagsHtml(_)
TagsHtml(tags) ==
    IF tags = <<>> THEN <<>>
    ELSE <<Lit("<span class=tag>#"), TagPiece(Head(tags)), Lit("</span>")>>
         \o TagsHtml(Tail(tags))

\* render_post_meta
render_post_meta(date, tags) ==
    <<Lit("<div class=meta>UPLOAD: "), Safe("date", date), Lit("</span> <span>")>>
    \o TagsHtml(tags) \o <<Lit("</span></div>")>>

\* the entry render_post_list writes for one post
PostEntry(post, relative_root) ==
    <<Lit("<div class=post-entry><a href="), Lit(relative_root),
      RawPiece("filename", post.filename), Lit("><span class=entry-title>"),
      [field |-> "title", via |-> "HtmlSafe", raw |-> post.title.raw,
       text |-> post.title.text],
      Lit(" ")>>
    \o TagsHtml(post.tags)
    \o <<Lit("</span><span class=entry-date>"), Safe("date", post.date),
         Lit("</span></a></div>")>>

\* render_post_list
RECURSIVE render_post_list(_, _)
render_post_list(items, relative_root) ==
    IF items = <<>> THEN <<Lit("</div>")>>
    ELSE PostEntry(Head(items), relative_root)
         \o render_post_list(Tail(items), relative_root)

\* the nav links of template, one per tag
RECURSIVE NavLinks(_, _)
NavLinks(tags, relative_root) ==
    IF tags = <<>> THEN <<>>
    ELSE <<Lit("<a href="), Lit(relative_root), Lit("tags/tag_"),
           [field |-> "tag", via |-> "Tag", raw |-> Head(tags),
            text |-> to_lowercase(Head(tags))],
           Lit(".html class=nav-link>"), TagPiece(Head(tags)), Lit("</a>")>>
         \o NavLinks(Tail(tags), relative_root)

\* template: title is an HtmlSafe, content the HTML built by the program,
\* tags the sorted all_tags, lcp the Option<String> of the context
template(title, content, tags, relative_root, brand, lcp) ==
    <<Lit("<title>"), Safe("brand", brand), Lit(" | "),
      [field |-> "title", via |-> "HtmlSafe", raw |-> title.raw, text |-> title.text],
      Lit("</title>")>>
    \o (IF lcp.some
        THEN <<Lit("<link rel=preload as=image href="), RawPiece("lcp_url", lcp.url),
               Lit(" fetchpriority=high>")>>
        ELSE <<>>)
    \o <<Lit("<header>"), Safe("brand", brand), Lit("<nav>")>>
    \o NavLinks(tags, relative_root)
    \o <<Lit("</nav></header><article>")>> \o content \o <<Lit("</article>")>>

\* the figure render_markdown writes at Event::End(TagEnd::Image): opt is the
\* OptimizedImage, with rel_path as a string
FigureHtml(img_url, img_title, img_alt, opt_rel_path, opt_external, relative_root) ==
    LET final_src ==
            IF opt_external THEN opt_rel_path ELSE relative_root \o opt_rel_path
        title_attr ==
            IF ~is_dimension_spec(img_title) /\ img_title # <<>>
            THEN <<Lit("title="), Safe("img_title", img_title)>>
            ELSE <<>>
    IN <<Lit("<figure><img src="),
         [field |-> "src", via |-> "HtmlSafe", raw |-> img_url,
          text |-> escape(final_src)],
         Lit(" alt="), Safe("alt", img_alt), Lit(" width height ")>>
       \o title_attr
       \o <<Lit(" loading /><figcaption><a href="),
            [field |-> "src", via |-> "HtmlSafe", raw |-> img_url,
             text |-> escape(final_src)],
            Lit(">[ Download Full Size ]</a></figcaption></figure>")>>

UserChars == {"a", "<", "\"", "8"}
UserStrings == StringsUpTo(UserChars, MaxUserLen)

PostInputs ==
    [title : UserStrings, tag : UserStrings, date : UserStrings,
     stem : UserStrings, lcp : UserStrings,
     url : {<<"a">>}, alt : {<<>>}, img_title : {<<>>}, external : {FALSE}]

ImageInputs ==
    [title : {<<>>}, tag : {<<>>}, date : {<<>>}, stem : {<<"a">>}, lcp : {<<>>},
     url : UserStrings \ {<<>>}, alt : UserStrings, img_title : UserStrings,
     external : BOOLEAN]

NoInput ==
    [title |-> <<>>, tag |-> <<>>, date |-> <<>>, stem |-> <<>>, lcp |-> <<>>,
     url |-> <<>>, alt |-> <<>>, img_title |-> <<>>, external |-> FALSE]

RenderIdle == userInput = NoInput /\ html = <<>>

RenderInit == userInput \in PostInputs \cup ImageInputs /\ html = <<>>

\* the post as extract_metadata and the orchestrator hand it to the templates
InputTitle == [raw |-> userInput.title, text |-> escape(userInput.title)]
InputTags == CollectTags(<<userInput.tag>>)
InputPost ==
    [title |-> InputTitle, tags |-> InputTags, date |-> userInput.date,
     filename |-> <<"p", "/">> \o userInput.stem \o <<".", "h">>]

\* a post page: render_post_meta and the rendered markdown inside template
RenderPostPage ==
    /\ html = <<>>
    /\ html' = template(InputTitle, render_post_meta(userInput.date, InputTags),
                        InputTags, "../", <<"B">>,
                        [some |-> userInput.lcp # <<>>, url |-> userInput.lcp])
    /\ UNCHANGED userInput

\* a list page: render_post_list inside template
RenderListPage ==
    /\ html = <<>>
    /\ html' = template([raw |-> <<"I">>, text |-> escape(<<"I">>)],
                        render_post_list(<<InputPost>>, ""),
                        InputTags, "", <<"B">>, [some |-> FALSE, url |-> <<>>])
    /\ UNCHANGED userInput

\* render_markdown on a post with one image
RenderFigure ==
    /\ html = <<>>
    /\ html' = FigureHtml(userInput.url, userInput.img_title, userInput.alt,
                          IF userInput.external
                          THEN userInput.url
                          ELSE <<"i", "/">> \o userInput.url,
                          userInput.external, <<".", ".", "/">>)
    /\ UNCHANGED userInput

----------------------------------------------------------------------------
(* Properties of the generated HTML *)

UserFields == {"title", "tag", "date", "src", "alt", "img_title", "lcp_url", "filename"}

\* C2: every user-derived string interpolated into the output (title, tag,
\* date, image src/alt/title, preload URL, post file name) reaches it as the
\* content of an HtmlSafe made by escape, escaped exactly once, or as a
\* validated Tag, never as the raw string: it holds none of < > " ', and
\* unless it is a tag it equals escape of the user's string.
C2_NoRawUserContent ==
    \A i \in 1..Len(html) :
        html[i].field \in UserFields =>
            /\ Chars(html[i].text) \cap {"<", ">", "\"", "'"} = {}
            /\ html[i].via = "Tag" => Tag_new(html[i].raw).state = "Ok"
            /\ (html[i].via # "Tag" /\ html[i].field # "src") =>
                   html[i].text = escape(html[i].raw)

----------------------------------------------------------------------------
(* main.rs: the build *)

\* the tag lists a Tags: line gives (its trimmed, non-empty segments)
TagLists == {<<>>, << <<"A">> >>, << <<"a">> >>, << <<"b">> >>}

\* a markdown file of the content directory: whether fs::metadata and
\* read_to_string succeed on it, the tags of its Tags: line, and whether
\* posts/<stem>.html can be written
MdFiles ==
    [readable : {FALSE}, tags : {<<>>}, writable : {FALSE}]
    \cup [readable : {TRUE}, tags : TagLists, writable : BOOLEAN]

ContentDirs ==
    {[exists |-> FALSE, files |-> <<>>]}
    \cup {[exists |-> TRUE, files |-> fs] :
             fs \in UNION {[1..n -> MdFiles] : n \in 0..MaxFiles}}

\* the file stem of the i-th markdown file
StemNames == <<"1", "2", "3", "4", "5">>
file_stem(i) == <<StemNames[i]>>

\* paths under the public directory
PostPath(i) == [dir |-> "posts", name |-> file_stem(i)]
IndexPath == [dir |-> "", name |-> <<"index">>]
TagPath(tag_lower) == [dir |-> "tags", name |-> <<"tag_">> \o tag_lower]

\* struct Post: filename is posts/<stem>.html
Post(i, tags) == [stem |-> i, filename |-> PostPath(i), tags |-> tags]

Pending == [state |-> "pending"]
ParsedOk(post) == [state |-> "Ok", post |-> post]
ParsedErr(i) == [state |-> "Err", path |-> i]

\* the page kinds written to the public directory, with the posts and the
\* tag set (the navigation) they show
PostPage(post, tags) ==
    [title |-> [kind |-> "Post", tag |-> <<>>], posts |-> <<post>>, all_tags |-> tags]
\* generate_list_page
generate_list_page(posts_, tags, title) ==
    [title |-> title, posts |-> posts_, all_tags |-> tags]

\* b.filename.cmp(&a.filename) is Less or Equal: b is not after a. The
\* filenames are posts/<stem>.html, and the stems compare as their indices
filename_ge(a, b) == a.stem >= b.stem

\* the insertion of a post into a list in descending order of filename, after
\* the posts that compare equal (the sort is stable)
RECURSIVE insert_desc(_, _)
insert_desc(ps, p) ==
    IF ps = <<>> THEN <<p>>
    ELSE IF filename_ge(Head(ps), p) THEN <<Head(ps)>> \o insert_desc(Tail(ps), p)
    ELSE <<p>> \o ps

\* a slip: the posts are left in the order of the merge
sort_keep(ps) == ps

\* posts.sort_by(|a, b| b.filename.cmp(&a.filename))
RECURSIVE sort_desc(_)
sort_desc(ps) ==
    IF ps = <<>> THEN <<>>
    ELSE insert_desc(sort_desc(SubSeq(ps, 1, Len(ps) - 1)), ps[Len(ps)])

\* p.tags.contains(tag)
Carries(post, tag) == \E k \in 1..Len(post.tags) : post.tags[k] = tag

\* posts.iter().filter(|p| p.tags.contains(tag))
tag_posts(ps, tag) ==
    LET keep(p) == Carries(p, tag) IN SelectSeq(ps, keep)

\* a slip: a content directory that cannot be listed read as an empty one
read_dir_ok_lenient(dir) == TRUE

\* fs::read_dir(content_dir): whether the listing succeeds
read_dir_ok(dir) == dir.exists

MainIdle ==
    /\ content_dir = [exists |-> FALSE, files |-> <<>>]
    /\ public_dir = [dirs |-> {}, files |-> <<>>, writable |-> FALSE]
    /\ pc = "idle" /\ parsed_results = <<>> /\ valid_posts_data = <<>>
    /\ all_tags = {} /\ errors = <<>> /\ merged = 0
    /\ build_results = <<>> /\ build_errors = <<>>
    /\ posts = <<>> /\ tag_todo = {} /\ exit = "none"

MainInit ==
    /\ content_dir \in ContentDirs
    /\ public_dir \in [dirs : {{}}, files : {<<>>}, writable : BOOLEAN]
    /\ pc = "start" /\ parsed_results = <<>> /\ valid_posts_data = <<>>
    /\ all_tags = {} /\ errors = <<>> /\ merged = 0
    /\ build_results = <<>> /\ build_errors = <<>>
    /\ posts = <<>> /\ tag_todo = {} /\ exit = "running"

\* fs::create_dir_all of posts, tags and images
CreateDirs ==
    /\ pc = "start"
    /\ public_dir' = [public_dir EXCEPT !.dirs = {"posts", "tags", "images"}]
    /\ pc' = "discover"
    /\ UNCHANGED <<content_dir, parsed_results, valid_posts_data, all_tags, errors,
                   merged, build_results, build_errors, posts, tag_todo, exit>>

\* fs::read_dir(content_dir)? and the collection of the markdown paths
Discover ==
    /\ pc = "discover"
    /\ IF read_dir_ok(content_dir)
       THEN /\ parsed_results' = [i \in 1..Len(content_dir.files) |-> Pending]
            /\ pc' = "parse"
            /\ exit' = exit
       ELSE /\ exit' = "Err: Failed to read content dir"
            /\ pc' = "failed"
            /\ parsed_results' = parsed_results
    /\ UNCHANGED <<content_dir, public_dir, valid_posts_data, all_tags, errors,
                   merged, build_results, build_errors, posts, tag_todo>>

\* what the parse closure returns for the i-th path
parse_result(i, file) ==
    IF file.readable THEN ParsedOk(Post(i, file.tags)) ELSE ParsedErr(i)

\* Pass 1: one parse task of paths.par_iter().map(..)
ParseTask ==
    /\ pc = "parse"
    /\ \E i \in DOMAIN parsed_results :
        /\ parsed_results[i] = Pending
        /\ parsed_results' =
               [parsed_results EXCEPT ![i] = parse_result(i, content_dir.files[i])]
    /\ UNCHANGED <<content_dir, public_dir, pc, valid_posts_data, all_tags, errors,
                   merged, build_results, build_errors, posts, tag_todo, exit>>

\* .collect(): every parse task has returned
CollectParsed ==
    /\ pc = "parse"
    /\ \A i \in DOMAIN parsed_results : parsed_results[i] # Pending
    /\ pc' = "merge"
    /\ UNCHANGED <<content_dir, public_dir, parsed_results, valid_posts_data, all_tags,
                   errors, merged, build_results, build_errors, posts, tag_todo, exit>>

\* the tags of a post as a set
TagSet(post) == {post.tags[k] : k \in 1..Len(post.tags)}

\* a slip: the tags of the post replace the set
insert_tags_replacing(tags, post) == TagSet(post)

\* for t in &post.tags { all_tags.insert(t.clone()) }
insert_tags(tags, post) == tags \cup TagSet(post)

\* a slip: a failed file discards the posts collected before it
push_valid_reset(valid, res) ==
    IF res.state = "Ok" THEN Append(valid, res.post) ELSE <<>>

\* valid_posts_data.push((post, content)) for an Ok result
push_valid(valid, res) ==
    IF res.state = "Ok" THEN Append(valid, res.post) ELSE valid

\* one iteration of `for res in parsed_results`
MergeStep ==
    /\ pc = "merge"
    /\ merged < Len(parsed_results)
    /\ LET res == parsed_results[merged + 1] IN
        /\ all_tags' = IF res.state = "Ok" THEN insert_tags(all_tags, res.post)
                       ELSE all_tags
        /\ valid_posts_data' = push_valid(valid_posts_data, res)
        /\ errors' = IF res.state = "Ok" THEN errors ELSE Append(errors, res)
    /\ merged' = merged + 1
    /\ UNCHANGED <<content_dir, public_dir, pc, parsed_results, build_results,
                   build_errors, posts, tag_todo, exit>>

\* the loop is over: the warnings are printed and Pass 2 starts
StartRender ==
    /\ pc = "merge"
    /\ merged = Len(parsed_results)
    /\ build_results' = [j \in 1..Len(valid_posts_data) |-> Pending]
    /\ pc' = "render"
    /\ UNCHANGED <<content_dir, public_dir, parsed_results, valid_posts_data, all_tags,
                   errors, merged, build_errors, posts, tag_todo, exit>>

\* Pass 2: one render task: process_markdown, then fs::write of the post page
RenderTask ==
    /\ pc = "render"
    /\ \E j \in DOMAIN build_results :
        /\ build_results[j] = Pending
        /\ LET post == valid_posts_data[j] IN
            IF content_dir.files[post.stem].writable
            THEN /\ public_dir' =
                        [public_dir EXCEPT !.files =
                            (post.filename :> PostPage(post, all_tags)) @@ @]
                 /\ build_results' = [build_results EXCEPT ![j] = [state |-> "Ok"]]
            ELSE /\ public_dir' = public_dir
                 /\ build_results' = [build_results EXCEPT ![j] = [state |-> "Err"]]
    /\ UNCHANGED <<content_dir, pc, parsed_results, valid_posts_data, all_tags,
                   errors, merged, build_errors, posts, tag_todo, exit>>

\* .collect(), the build_errors loop and the sort of the posts for the index
CollectBuilt ==
    /\ pc = "render"
    /\ \A j \in DOMAIN build_results : build_results[j] # Pending
    /\ build_errors' =
           LET failed(r) == r.state = "Err" IN SelectSeq(build_results, failed)
    /\ posts' = sort_desc(valid_posts_data)
    /\ pc' = "index"
    /\ UNCHANGED <<content_dir, public_dir, parsed_results, valid_posts_data, all_tags,
                   errors, merged, build_results, tag_todo, exit>>

\* generate_list_page(&posts, &all_tags, "Index", public_dir.join("index.html"), "")?
GenerateIndex ==
    /\ pc = "index"
    /\ IF public_dir.writable
       THEN /\ public_dir' =
                   [public_dir EXCEPT !.files =
                       (IndexPath :> generate_list_page(posts, all_tags,
                                         [kind |-> "Index", tag |-> <<>>])) @@ @]
            /\ tag_todo' = all_tags
            /\ pc' = "tags"
            /\ exit' = exit
       ELSE /\ exit' = "Err: write"
            /\ pc' = "failed"
            /\ UNCHANGED <<public_dir, tag_todo>>
    /\ UNCHANGED <<content_dir, parsed_results, valid_posts_data, all_tags, errors,
                   merged, build_results, build_errors, posts>>

\* one iteration of `for tag in &all_tags`, in the order of the HashSet
GenerateTagPage ==
    /\ pc = "tags"
    /\ \E tag \in tag_todo :
        /\ public_dir' =
               [public_dir EXCEPT !.files =
                   (TagPath(to_lowercase(tag)) :>
                        generate_list_page(tag_posts(posts, tag), all_tags,
                                           [kind |-> "Tag", tag |-> tag])) @@ @]
        /\ tag_todo' = tag_todo \ {tag}
    /\ UNCHANGED <<content_dir, pc, parsed_results, valid_posts_data, all_tags, errors,
                   merged, build_results, build_errors, posts, exit>>

\* the end of main: Ok(()) whatever errors and build_errors hold
Finish ==
    /\ pc = "tags"
    /\ tag_todo = {}
    /\ exit' = "Ok"
    /\ pc' = "done"
    /\ UNCHANGED <<content_dir, public_dir, parsed_results, valid_posts_data, all_tags,
                   errors, merged, build_results, build_errors, posts, tag_todo>>

\* the failure recorded for a file that failed to parse or a post that failed
\* to render: a recoverable per-post failure
PostFailure(i) == [kind |-> "ParseFailed", payload |-> StemNames[i]]

\* the failures of the build in recording order: parse phase, then render phase
RecordedFailures ==
    [k \in 1..Len(errors) |-> PostFailure(errors[k].path)]
    \o LET failedAt == {j \in DOMAIN build_results : build_results[j].state = "Err"}
           nth(S, k) == CHOOSE j \in S : Cardinality({m \in S : m < j}) = k - 1
       IN [k \in 1..Cardinality(failedAt) |->
              PostFailure(valid_posts_data[nth(failedAt, k)].stem)]

\* the successes of the build: the posts whose page was written
RecordedSuccesses ==
    Cardinality({j \in DOMAIN build_results : build_results[j].state = "Ok"})

\* Finalize: every outcome is recorded in the BuildResult, which is finalized
Summarize ==
    /\ pc = "done"
    /\ pc' = "finalized"
    /\ successes' = RecordedSuccesses
    /\ failures' = RecordedFailures
    /\ calls' = [success |-> RecordedSuccesses, failure |-> RecordedFailures]
    /\ outcome' = FinalizeResult(RecordedSuccesses, RecordedFailures)
    /\ UNCHANGED <<content_dir, public_dir, parsed_results, valid_posts_data, all_tags,
                   errors, merged, build_results, build_errors, posts, tag_todo, exit>>

----------------------------------------------------------------------------
(* Properties of the build *)

\* the markdown files that can be read, and the tags they carry
ReadableFiles == {i \in DOMAIN content_dir.files : content_dir.files[i].readable}
FileTags(i) == {content_dir.files[i].tags[k] : k \in 1..Len(content_dir.files[i].tags)}
CorpusTags == UNION {FileTags(i) : i \in ReadableFiles}

\* the posts whose render task ended with Ok, by file
RenderedFiles ==
    {valid_posts_data[j].stem :
        j \in {k \in DOMAIN build_results : build_results[k].state = "Ok"}}

\* the files listed on a page
ListedOn(path) ==
    {public_dir.files[path].posts[k].stem : k \in 1..Len(public_dir.files[path].posts)}

ListPaths == {path \in DOMAIN public_dir.files : path.dir \in {"", "tags"}}

\* C11: a post whose render or HTML write failed is on no list page: the
\* index and every tag page list only posts whose render task returned Ok.
C11_FailedPostsNotListed ==
    \A path \in ListPaths : ListedOn(path) \subseteq RenderedFiles

\* C12: after listing generation every tag of the corpus tag set has the page
\* tags/tag_<lowercased tag>.html, that page lists exactly the posts carrying
\* the tag, and two distinct tags have two distinct pages.
C12_OnePagePerTag ==
    pc = "done" =>
        /\ \A tag \in CorpusTags :
            LET path == [dir |-> "tags", name |-> <<"tag_">> \o to_lowercase(tag)] IN
            /\ path \in DOMAIN public_dir.files
            /\ ListedOn(path) = {i \in ReadableFiles : tag \in FileTags(i)}
        /\ \A t1, t2 \in CorpusTags : t1 # t2 => to_lowercase(t1) # to_lowercase(t2)

\* C14: when the content directory cannot be listed, no parse or render task
\* runs, no file is written under the public directory, and the build ends
\* with the error of the failed listing.
C14_UnreadableContentIsFatal ==
    ~content_dir.exists =>
        /\ parsed_results = <<>> /\ build_results = <<>>
        /\ DOMAIN public_dir.files = {}
        /\ pc \in {"start", "discover", "failed"}
        /\ pc = "failed" => exit = "Err: Failed to read content dir"

\* the build of a missing content directory has ended
C14_Witness ==
    ~content_dir.exists /\ pc = "failed" /\ public_dir.dirs # {}

\* the render phase has begun
RenderStarted ==
    \/ pc \in {"render", "index", "tags", "done", "finalized"}
    \/ \E j \in DOMAIN build_results : build_results[j] # Pending

\* C20: once the render phase has begun, every parse task has returned, every
\* result has been merged, and the tag set is and stays the set of the tags
\* of all parsed posts; every page written shows that set.
C20_PhasesAndFrozenTags ==
    /\ RenderStarted =>
        /\ \A i \in DOMAIN parsed_results : parsed_results[i] # Pending
        /\ merged = Len(parsed_results)
        /\ all_tags = CorpusTags
    /\ \A path \in DOMAIN public_dir.files :
        public_dir.files[path].all_tags = CorpusTags

\* a build of two posts with different tags has written all its pages
C20_Witness ==
    /\ pc = "done"
    /\ Cardinality(CorpusTags) >= 2
    /\ \E path \in DOMAIN public_dir.files : path.dir = "posts"
    /\ \E path \in DOMAIN public_dir.files : path.dir = "tags"

\* some markdown file failed to read, and the build has been finalized
ReadFailureBuilt ==
    pc = "finalized" /\ ReadableFiles # DOMAIN content_dir.files

\* every file that can be read was parsed, given to a render task and listed
\* on the index
OthersUnaffected ==
    \A i \in ReadableFiles :
        /\ parsed_results[i].state = "Ok"
        /\ \E j \in DOMAIN build_results :
            valid_posts_data[j].stem = i /\ build_results[j] # Pending
        /\ i \in ListedOn(IndexPath)

\* the summary counts the posts built and the files that failed
SummaryCounts ==
    /\ outcome.state = "Ok"
    /\ outcome.summary.posts_built = Cardinality(RenderedFiles)
    /\ outcome.summary.posts_skipped =
           Len(content_dir.files) - Cardinality(RenderedFiles)

ExpectedPosts ==
    LET n == Cardinality(ReadableFiles)
        nth(k) == CHOOSE i \in ReadableFiles :
                      Cardinality({m \in ReadableFiles : m > i}) = k - 1
    IN [k \in 1..n |-> Post(nth(k), content_dir.files[nth(k)].tags)]

\* the readable files whose post page can be written
WritableFiles == {i \in ReadableFiles : content_dir.files[i].writable}

PagesUnder(dir) == {path \in DOMAIN public_dir.files : path.dir = dir}

----------------------------------------------------------------------------
(* parser.rs: the event loop of render_markdown *)

\* the kinds of pulldown_cmark::Event told apart by the loop: the start and
\* the end of an image, text, inline code, and any other event
EventKinds == {"StartImage", "EndImage", "Text", "Code", "Other"}

\* the images open before the k-th event of evs
RECURSIVE OpenImages(_, _)
OpenImages(evs, k) ==
    IF k <= 1 THEN 0
    ELSE OpenImages(evs, k - 1)
         + (IF evs[k - 1] = "StartImage" THEN 1
            ELSE IF evs[k - 1] = "EndImage" THEN 0 - 1 ELSE 0)

\* the event sequences of a document: every image end closes an open image
\* (an image may stand inside the alt text of another), and every image is
\* closed at the end
WellNested(evs) ==
    /\ \A k \in 1..Len(evs) : evs[k] = "EndImage" => OpenImages(evs, k) > 0
    /\ OpenImages(evs, Len(evs) + 1) = 0

EventSequences ==
    {evs \in UNION {[1..n -> EventKinds] : n \in 0..MaxEvents} : WellNested(evs)}

\* an event pushed as it came, the k-th of the parser
Passed(kind, k) == [kind |-> kind, from |-> k, url |-> 0, alt |-> <<>>]

\* Event::Html(figure) pushed at the k-th event for the image image_url (the
\* index of its start event) with the alt text alt (the indices of the text
\* and code events pushed to image_alt)
Figure(k, url, alt) == [kind |-> "Html", from |-> k, url |-> url, alt |-> alt]

EventsIdle ==
    /\ parser_events = <<>> /\ handled = 0 /\ in_image = FALSE
    /\ image_url = 0 /\ image_alt = <<>> /\ events = <<>>

\* Parser::new(markdown) and the locals before the loop
EventsInit ==
    /\ parser_events \in EventSequences
    /\ handled = 0 /\ in_image = FALSE
    /\ image_url = 0 /\ image_alt = <<>> /\ events = <<>>

\* one iteration of `for event in parser`
HandleEvent ==
    /\ handled < Len(parser_events)
    /\ handled' = handled + 1
    /\ LET k == handled + 1
           event == parser_events[k]
       IN CASE event = "StartImage" ->
                 /\ in_image' = TRUE
                 /\ image_url' = k
                 /\ image_alt' = <<>>
                 /\ events' = events
            [] event = "EndImage" ->
                 /\ in_image' = FALSE
                 /\ events' = Append(events, Figure(k, image_url, image_alt))
                 /\ UNCHANGED <<image_url, image_alt>>
            [] event \in {"Text", "Code"} /\ in_image ->
                 /\ image_alt' = Append(image_alt, k)
                 /\ UNCHANGED <<in_image, image_url, events>>
            [] event \notin {"StartImage", "EndImage"} /\ ~in_image ->
                 /\ events' = Append(events, Passed(event, k))
                 /\ UNCHANGED <<in_image, image_url, image_alt>>
            [] OTHER -> UNCHANGED <<in_image, image_url, image_alt, events>>
    /\ UNCHANGED parser_events

\* the k-th event lies outside every image node
Outside(k) ==
    /\ OpenImages(parser_events, k) = 0
    /\ parser_events[k] \notin {"StartImage", "EndImage"}

\* the start event of the image that the end event at k closes
RECURSIVE MatchingStart(_, _, _)
MatchingStart(evs, k, open) ==
    IF evs[k] = "StartImage" /\ open = 0 THEN k
    ELSE MatchingStart(evs, k - 1,
             IF evs[k] = "EndImage" THEN open + 1
             ELSE IF evs[k] = "StartImage" THEN open - 1 ELSE open)

\* the text and code events from position a to position b
RECURSIVE TextBetween(_, _, _)
TextBetween(evs, a, b) ==
    IF a > b THEN <<>>
    ELSE (IF evs[a] \in {"Text", "Code"} THEN <<a>> ELSE <<>>)
         \o TextBetween(evs, a + 1, b)

\* C17: of the events handled, those outside every image node are pushed
\* unchanged and in order; whatever else is pushed is the figure pushed at an
\* image end, whose alt text is made of text and code events between the
\* start of that image and its end; no event from inside an image node is
\* pushed as body content.
C17_ImageNodesOnlyGiveFigures ==
    /\ \A n \in 1..Len(events) :
        IF events[n].kind = "Html"
        THEN LET end == events[n].from
                 start == MatchingStart(parser_events, end - 1, 0)
                 inside == TextBetween(parser_events, start, end)
             IN /\ parser_events[end] = "EndImage"
                /\ \A a \in 1..Len(events[n].alt) :
                    \E b \in 1..Len(inside) : events[n].alt[a] = inside[b]
        ELSE /\ Outside(events[n].from)
             /\ events[n] = Passed(parser_events[events[n].from], events[n].from)
    /\ \A k \in 1..handled :
        Outside(k) => \E n \in 1..Len(events) : events[n] = Passed(parser_events[k], k)
    /\ \A n, m \in 1..Len(events) : n < m => events[n].from < events[m].from

----------------------------------------------------------------------------
(* parser.rs: the calls of parse_dimensions_or_image *)

\* the characters of an image title
TitleChars == {"8", "0", "x", "a", " ", "+"}
ImageTitles == StringsUpTo(TitleChars, MaxTitleLen)

\* opt.width and opt.height: 0 is unknown
MeasuredSizes == {<<0, 0>>, <<2, 0>>, <<0, 5>>, <<2, 5>>}

NoAttrs == <<"none">>

DimsIdle == image_title = <<>> /\ img_size = <<0, 0>> /\ dim_attrs = NoAttrs

DimsInit ==
    /\ image_title \in ImageTitles
    /\ img_size \in MeasuredSizes
    /\ dim_attrs = NoAttrs

\* the call of parse_dimensions_or_image at the end of an image
ParseDimensionsCall ==
    /\ dim_attrs = NoAttrs
    /\ dim_attrs' = parse_dimensions_or_image(image_title, img_size[1], img_size[2])
    /\ UNCHANGED <<image_title, img_size>>

\* a decimal integer as parse::<u32> reads one: digits, after an optional +
IsDecimal(str) ==
    \E k \in 0..1 :
        /\ Len(str) > k
        /\ k = 1 => str[1] = "+"
        /\ \A i \in (k + 1)..Len(str) : str[i] \in {"0", "8"}

\* the value of a decimal integer, digit by digit from the left
RECURSIVE DecimalFrom(_, _)
DecimalFrom(str, acc) ==
    IF str = <<>> THEN acc
    ELSE DecimalFrom(Tail(str),
             IF Head(str) = "+" THEN acc
             ELSE 10 * acc + (IF Head(str) = "8" THEN 8 ELSE 0))

\* the splits of a title WxH around one x
SplitsAtX(str) ==
    {k \in 1..Len(str) :
        /\ str[k] = "x"
        /\ IsDecimal(SubSeq(str, 1, k - 1))
        /\ IsDecimal(SubSeq(str, k + 1, Len(str)))}

\* C18: a (trimmed) title WxH gives width W and height H; a title that is one
\* decimal integer W gives width W and no height; any other title gives the
\* measured width and height when both are non-zero and no attribute
\* otherwise.
C18_DimensionPriority ==
    dim_attrs # NoAttrs =>
        LET t == Trim(image_title) IN
        IF SplitsAtX(t) # {}
        THEN \E k \in SplitsAtX(t) :
                dim_attrs = <<Attr(DecimalFrom(SubSeq(t, 1, k - 1), 0)),
                              Attr(DecimalFrom(SubSeq(t, k + 1, Len(t)), 0))>>
        ELSE IF IsDecimal(t)
        THEN dim_attrs = <<Attr(DecimalFrom(t, 0)), NoAttr>>
        ELSE IF img_size[1] # 0 /\ img_size[2] # 0
        THEN dim_attrs = <<Attr(img_size[1]), Attr(img_size[2])>>
        ELSE dim_attrs = <<NoAttr, NoAttr>>

\* the malformed title "8x" was handled with a measured size at hand
C18_Witness ==
    /\ image_title = <<"8", "x">>
    /\ img_size = <<2, 5>>
    /\ dim_attrs = <<Attr(2), Attr(5)>>

----------------------------------------------------------------------------
(* Specifications *)

SpecTypesInit == TypesInit /\ BuildIdle /\ ParseIdle /\ ImageIdle /\ RenderIdle /\ MainIdle /\ EventsIdle /\ DimsIdle /\ RaceIdle
SpecTypesNext ==
    \/ escape_html /\ UNCHANGED <<buildVars, parseVars, imageVars, renderVars, mainVars, eventVars, dimVars, raceVars>>
    \/ TagNewCall /\ UNCHANGED <<buildVars, parseVars, imageVars, renderVars, mainVars, eventVars, dimVars, raceVars>>
SpecTypes == SpecTypesInit /\ [][SpecTypesNext]_vars

SpecBuildInit == BuildResult_new /\ TypesIdle /\ ParseIdle /\ ImageIdle /\ RenderIdle /\ MainIdle /\ EventsIdle /\ DimsIdle /\ RaceIdle
SpecBuildNext ==
    \/ record_success /\ UNCHANGED <<typeVars, parseVars, imageVars, renderVars, mainVars, eventVars, dimVars, raceVars>>
    \/ record_failure /\ UNCHANGED <<typeVars, parseVars, imageVars, renderVars, mainVars, eventVars, dimVars, raceVars>>
    \/ finalize /\ UNCHANGED <<typeVars, parseVars, imageVars, renderVars, mainVars, eventVars, dimVars, raceVars>>
SpecBuild == SpecBuildInit /\ [][SpecBuildNext]_vars

SpecParseInit == ParseInit /\ TypesIdle /\ BuildIdle /\ ImageIdle /\ RenderIdle /\ MainIdle /\ EventsIdle /\ DimsIdle /\ RaceIdle
SpecParseNext == ExtractMetadataCall /\ UNCHANGED <<typeVars, buildVars, imageVars, renderVars, mainVars, eventVars, dimVars, raceVars>>
SpecParse == SpecParseInit /\ [][SpecParseNext]_vars

SpecImageInit == ImageInit /\ TypesIdle /\ BuildIdle /\ ParseIdle /\ RenderIdle /\ MainIdle /\ EventsIdle /\ DimsIdle /\ RaceIdle
SpecImageNext ==
    \/ Tick /\ UNCHANGED <<typeVars, buildVars, parseVars, renderVars, mainVars, eventVars, dimVars, raceVars>>
    \/ EditSource /\ UNCHANGED <<typeVars, buildVars, parseVars, renderVars, mainVars, eventVars, dimVars, raceVars>>
    \/ ImageEnd /\ UNCHANGED <<typeVars, buildVars, parseVars, renderVars, mainVars, eventVars, dimVars, raceVars>>
    \/ NextBuild /\ UNCHANGED <<typeVars, buildVars, parseVars, renderVars, mainVars, eventVars, dimVars, raceVars>>
SpecImage == SpecImageInit /\ [][SpecImageNext]_vars

SpecReconfigNext ==
    \/ ImageEnd /\ UNCHANGED <<typeVars, buildVars, parseVars, renderVars, mainVars, eventVars, dimVars, raceVars>>
    \/ NextBuild /\ UNCHANGED <<typeVars, buildVars, parseVars, renderVars, mainVars, eventVars, dimVars, raceVars>>
    \/ Reconfigure /\ UNCHANGED <<typeVars, buildVars, parseVars, renderVars, mainVars, eventVars, dimVars, raceVars>>
SpecReconfig == SpecImageInit /\ [][SpecReconfigNext]_vars

SpecRenderInit == RenderInit /\ TypesIdle /\ BuildIdle /\ ParseIdle /\ ImageIdle /\ MainIdle /\ EventsIdle /\ DimsIdle /\ RaceIdle
SpecRenderNext ==
    \/ RenderPostPage /\ UNCHANGED <<typeVars, buildVars, parseVars, imageVars, mainVars, eventVars, dimVars, raceVars>>
    \/ RenderListPage /\ UNCHANGED <<typeVars, buildVars, parseVars, imageVars, mainVars, eventVars, dimVars, raceVars>>
    \/ RenderFigure /\ UNCHANGED <<typeVars, buildVars, parseVars, imageVars, mainVars, eventVars, dimVars, raceVars>>
SpecRender == SpecRenderInit /\ [][SpecRenderNext]_vars

SpecMainInit ==
    /\ MainInit /\ BuildResult_new /\ TypesIdle /\ ParseIdle /\ ImageIdle
    /\ RenderIdle /\ EventsIdle /\ DimsIdle /\ RaceIdle /\ RaceIdle
SpecMainNext ==
    \/ CreateDirs /\ UNCHANGED <<typeVars, buildVars, parseVars, imageVars, renderVars, eventVars, dimVars, raceVars>>
    \/ Discover /\ UNCHANGED <<typeVars, buildVars, parseVars, imageVars, renderVars, eventVars, dimVars, raceVars>>
    \/ ParseTask /\ UNCHANGED <<typeVars, buildVars, parseVars, imageVars, renderVars, eventVars, dimVars, raceVars>>
    \/ CollectParsed /\ UNCHANGED <<typeVars, buildVars, parseVars, imageVars, renderVars, eventVars, dimVars, raceVars>>
    \/ MergeStep /\ UNCHANGED <<typeVars, buildVars, parseVars, imageVars, renderVars, eventVars, dimVars, raceVars>>
    \/ StartRender /\ UNCHANGED <<typeVars, buildVars, parseVars, imageVars, renderVars, eventVars, dimVars, raceVars>>
    \/ RenderTask /\ UNCHANGED <<typeVars, buildVars, parseVars, imageVars, renderVars, eventVars, dimVars, raceVars>>
    \/ CollectBuilt /\ UNCHANGED <<typeVars, buildVars, parseVars, imageVars, renderVars, eventVars, dimVars, raceVars>>
    \/ GenerateIndex /\ UNCHANGED <<typeVars, buildVars, parseVars, imageVars, renderVars, eventVars, dimVars, raceVars>>
    \/ GenerateTagPage /\ UNCHANGED <<typeVars, buildVars, parseVars, imageVars, renderVars, eventVars, dimVars, raceVars>>
    \/ Finish /\ UNCHANGED <<typeVars, buildVars, parseVars, imageVars, renderVars, eventVars, dimVars, raceVars>>
    \/ Summarize /\ UNCHANGED <<typeVars, parseVars, imageVars, renderVars, eventVars, dimVars, raceVars>>
SpecMain == SpecMainInit /\ [][SpecMainNext]_vars

SpecEventsInit ==
    /\ EventsInit /\ TypesIdle /\ BuildIdle /\ ParseIdle /\ ImageIdle
    /\ RenderIdle /\ MainIdle /\ DimsIdle /\ RaceIdle
SpecEventsNext ==
    HandleEvent /\ UNCHANGED <<typeVars, buildVars, parseVars, imageVars, renderVars, mainVars,
                            dimVars, raceVars>>
SpecEvents == SpecEventsInit /\ [][SpecEventsNext]_vars

SpecDimsInit ==
    /\ DimsInit /\ TypesIdle /\ BuildIdle /\ ParseIdle /\ ImageIdle
    /\ RenderIdle /\ MainIdle /\ EventsIdle /\ RaceIdle
SpecDimsNext ==
    ParseDimensionsCall /\ UNCHANGED <<typeVars, buildVars, parseVars, imageVars, renderVars,
                                       mainVars, eventVars, raceVars>>
SpecDims == SpecDimsInit /\ [][SpecDimsNext]_vars

SpecRaceInit ==
    /\ RaceInit /\ TypesIdle /\ BuildIdle /\ ParseIdle /\ ImageIdle
    /\ RenderIdle /\ MainIdle /\ EventsIdle /\ DimsIdle
SpecRaceNext ==
    \/ CacheCheck /\ UNCHANGED <<typeVars, buildVars, parseVars, imageVars, renderVars, mainVars, eventVars, dimVars>>
    \/ ReadCached /\ UNCHANGED <<typeVars, buildVars, parseVars, imageVars, renderVars, mainVars, eventVars, dimVars>>
    \/ Decode /\ UNCHANGED <<typeVars, buildVars, parseVars, imageVars, renderVars, mainVars, eventVars, dimVars>>
    \/ CreateFile /\ UNCHANGED <<typeVars, buildVars, parseVars, imageVars, renderVars, mainVars, eventVars, dimVars>>
    \/ WriteChunk /\ UNCHANGED <<typeVars, buildVars, parseVars, imageVars, renderVars, mainVars, eventVars, dimVars>>
SpecRace == SpecRaceInit /\ [][SpecRaceNext]_vars

====
